---- MODULE Spec2Model ----
(***************************************************************************)
(* A model of geometric_kernels.spaces.graph.Graph (the memoised           *)
(* eigensystem of a graph Laplacian) and of                                *)
(* geometric_kernels.spaces.circle (SinCosEigenfunctions, Circle).         *)
(*                                                                         *)
(* Arrays are numpy-like records [shape, data] with row-major data.        *)
(* Eigenvalues are exact: k + e*eps, written [int |-> k, eps |-> e], with  *)
(* eps = np.finfo(float).eps < 1, so they are ordered lexicographically.   *)
(* Trigonometric values are exact elements of Q(sqrt2, sqrt3) on the grid  *)
(* of multiples of pi/12.                                                  *)
(***************************************************************************)
EXTENDS Integers, Sequences, FiniteSets, TLC

VARIABLES
    phase,      \* "new" | "ready" | "failed": where Graph.__init__ got to
    adjacency,  \* the argument Graph.__init__ was given
    laplacian,  \* self._laplacian, or Unset while the attribute does not exist
    cache,      \* self.cache: a function from num to [evecs, evals]
    solves,     \* per num, how often eigenpairs was invoked
    okSolves,   \* per num, how often eigenpairs returned
    sets,       \* how often set_laplacian was called after construction
    last,       \* the last sequential call: [op, num, raised, solved, value]
    pc,         \* per caller, its position inside get_eigensystem
    arg,        \* per caller, the num it was called with
    local,      \* per caller, the locals evecs, evals of get_eigensystem
    result,     \* per caller, what its last get_eigensystem returned
    circ        \* the last operation on the circle: its inputs and its result

vars == <<phase, adjacency, laplacian, cache, solves, okSolves, sets, last,
          pc, arg, local, result, circ>>

graphVars == <<phase, adjacency, laplacian, cache, solves, okSolves, sets, last>>
callerVars == <<pc, arg, local, result>>

-----------------------------------------------------------------------------
(* Bounds of the model.                                                    *)

MaxNodes == 3
MaxNum == 2
MaxRaises == 1
MaxSetLaplacian == 1
NumCallers == 2
MaxCircleNum == 5
MaxAngle == 2
MaxPoints == 2

-----------------------------------------------------------------------------
(* Arrays.                                                                 *)

Min(a, b) == IF a < b THEN a ELSE b
Abs(a) == IF a < 0 THEN -a ELSE a

Unset == [shape |-> <<>>, data |-> <<>>]

Matrix(r, c, f(_, _)) ==
    [shape |-> <<r, c>>,
     data |-> [k \in 1..(r * c) |-> f(((k - 1) \div c) + 1, ((k - 1) % c) + 1)]]

At(A, i, j) == A.data[(i - 1) * A.shape[2] + j]

Order(A) == A.shape[1]

RECURSIVE SumTo(_, _)
SumTo(f, n) == IF n = 0 THEN 0 ELSE f[n] + SumTo(f, n - 1)

\* lab_extras.degree: the diagonal matrix of the row sums.
degree(A) ==
    Matrix(A.shape[1], A.shape[2],
           LAMBDA i, j : IF i = j
                         THEN SumTo([k \in 1..A.shape[2] |-> At(A, i, k)], A.shape[2])
                         ELSE 0)

Minus(A, B) == Matrix(A.shape[1], A.shape[2], LAMBDA i, j : At(A, i, j) - At(B, i, j))

\* Graph.set_laplacian: the value it assigns to self._laplacian.
set_laplacian(adj) == Minus(degree(adj), adj)

-----------------------------------------------------------------------------
(* The eigenvalues of an integer matrix whose spectrum is integral.        *)

RECURSIVE SortedSeq(_)
SortedSeq(S) ==
    IF S = {} THEN <<>>
    ELSE LET m == CHOOSE x \in S : \A y \in S : x <= y
         IN <<m>> \o SortedSeq(S \ {m})

Without(s, k) == [i \in 1..(Len(s) - 1) |-> IF i < k THEN s[i] ELSE s[i + 1]]

RECURSIVE Det(_, _, _)
RECURSIVE DetRow(_, _, _, _)
\* The minor of A on the index sequences rows and cols, expanded along its first row.
Det(A, rows, cols) ==
    IF rows = <<>> THEN 1 ELSE DetRow(A, rows, cols, Len(cols))

DetRow(A, rows, cols, k) ==
    IF k = 0 THEN 0
    ELSE (IF k % 2 = 1 THEN 1 ELSE -1)
            * At(A, rows[1], cols[k]) * Det(A, Tail(rows), Without(cols, k))
         + DetRow(A, rows, cols, k - 1)

MaxOf(S) == CHOOSE m \in S : \A x \in S : x <= m

\* A has a k x k minor that is not 0.
HasMinor(A, k) ==
    \E R \in SUBSET (1..Order(A)) : \E C \in SUBSET (1..Order(A)) :
        /\ Cardinality(R) = k
        /\ Cardinality(C) = k
        /\ Det(A, SortedSeq(R), SortedSeq(C)) # 0

Rank(A) == MaxOf({ k \in 0..Order(A) : HasMinor(A, k) })

Shift(A, lam) ==
    Matrix(Order(A), Order(A), LAMBDA i, j : At(A, i, j) - (IF i = j THEN lam ELSE 0))

\* Gershgorin: every eigenvalue lies within the largest absolute row sum.
Radius(A) ==
    MaxOf({0} \cup { SumTo([k \in 1..Order(A) |-> Abs(At(A, i, k))], Order(A)) :
                       i \in 1..Order(A) })

Repeat(x, n) == [i \in 1..n |-> x]

RECURSIVE EigenvaluesFrom(_, _, _)
EigenvaluesFrom(A, lam, hi) ==
    IF lam > hi THEN <<>>
    ELSE Repeat(lam, Order(A) - Rank(Shift(A, lam))) \o EigenvaluesFrom(A, lam + 1, hi)

\* The integer eigenvalues of A, ascending, each repeated by its multiplicity.
EigenvaluesWithin(A, r) == EigenvaluesFrom(A, -r, r)

Eigenvalues(A) == EigenvaluesWithin(A, Radius(A))

Symmetric(A) == \A i \in 1..A.shape[1] : \A j \in 1..A.shape[2] : At(A, i, j) = At(A, j, i)

ZeroOne(n) ==
    { [shape |-> <<n, n>>, data |-> d] :
        d \in { f \in [1..(n * n) -> {0, 1}] :
                  \A i \in 1..n : f[(i - 1) * n + i] = 0 } }

\* The simple graphs on at most MaxNodes nodes whose Laplacian spectrum is
\* integral: the adjacency matrix, its Laplacian and the Laplacian's spectrum.
GraphOf(A, L) == [adj |-> A, lap |-> L, spectrum |-> Eigenvalues(L)]

IntegralGraphs ==
    { g \in { GraphOf(A, set_laplacian(A)) :
                A \in UNION { { B \in ZeroOne(n) : Symmetric(B) } : n \in 1..MaxNodes } } :
        Len(g.spectrum) = Order(g.adj) }

\* Eigenvalues(L), looked up where it was computed before.
SpectrumAmong(known, L) ==
    IF known # {} THEN (CHOOSE g \in known : TRUE).spectrum ELSE Eigenvalues(L)

Spectrum(L) == SpectrumAmong({ g \in IntegralGraphs : g.lap = L }, L)

Num(k) == [int |-> k, eps |-> 0]

\* np.finfo(float).eps
Eps == [int |-> 0, eps |-> 1]

Less(a, b) == a.int < b.int \/ (a.int = b.int /\ a.eps < b.eps)
Leq(a, b) == a = b \/ Less(a, b)

\* lab_extras.eigenpairs: the num smallest eigenpairs, ascending.  The
\* eigenvector block is kept symbolically: which Laplacian and which num it
\* belongs to, and which run of the solver allocated the array.
Smallest(all, L, num, run) ==
    [evals |-> [i \in 1..Min(num, Len(all)) |-> Num(all[i])],
     evecs |-> [lap |-> L, num |-> num, run |-> run]]

eigenpairs(L, num, run) == Smallest(Spectrum(L), L, num, run)

\* lab_extras.set_value(a, index, value), index counted from 0.
set_value(a, index, value) ==
    [i \in 1..Len(a) |-> IF i = index + 1 THEN value ELSE a[i]]

\* evals[:, None]: a [num] vector as a [num, 1] column.
Column(a) == [i \in 1..Len(a) |-> <<a[i]>>]

-----------------------------------------------------------------------------
(* The inputs.                                                             *)

ValidAdjacencies == { g.adj : g \in IntegralGraphs }

AsymmetricAdjacencies ==
    UNION { { A \in ZeroOne(n) : ~Symmetric(A) } : n \in 1..MaxNodes }

\* Arrays that are not square, and arrays that are not 2-D.
MalformedAdjacencies ==
    (UNION { { [shape |-> <<r, c>>, data |-> Repeat(v, r * c)] : v \in {0, 1} } :
              <<r, c>> \in { p \in (1..MaxNodes) \X (1..MaxNodes) : p[1] # p[2] } })
    \cup { [shape |-> <<r>>, data |-> Repeat(1, r)] : r \in 1..MaxNodes }

Adjacencies == ValidAdjacencies \cup AsymmetricAdjacencies \cup MalformedAdjacencies

Nums == 1..MaxNum

-----------------------------------------------------------------------------
(* Graph, one call at a time.                                              *)

\* Graph._checks: "ok", or the message of the assertion that fails.
ChecksNoSymmetry(adj) ==
    IF ~(Len(adj.shape) = 2 /\ adj.shape[1] = adj.shape[2])
    THEN "Matrix is not square."
    ELSE "ok"

Checks(adj) ==
    IF ~(Len(adj.shape) = 2 /\ adj.shape[1] = adj.shape[2])
    THEN "Matrix is not square."
    ELSE IF \E i \in 1..adj.shape[1] : \E j \in 1..adj.shape[2] :
               At(adj, i, j) # At(adj, j, i)
         THEN "Adjacency is not symmetric."
         ELSE "ok"

NoCall == [op |-> "none", num |-> 0, raised |-> FALSE, solved |-> FALSE, value |-> <<>>]

\* self.cache[num] = entry
Put(c, num, entry) ==
    [n \in DOMAIN c \cup {num} |-> IF n = num THEN entry ELSE c[n]]

NeedsSolveAlways(c, num) == TRUE

\* Line 60: num not in self.cache
NeedsSolve(c, num) == num \notin DOMAIN c

\* Lines 62-66: the pair made of what eigenpairs returned.
Entry(p) == [evecs |-> p.evecs, evals |-> Column(set_value(p.evals, 0, Eps))]

\* Lines 61-66 when eigenpairs returns: the entry stored under num.
Solved(L, num, run) == Entry(eigenpairs(L, num, run))

\* Lines 66-68 done: the cache c2 holds num, and its entry is returned.
Stored(c2, num) == [cache |-> c2, raised |-> FALSE, solved |-> TRUE, value |-> c2[num]]

\* get_eigensystem without line 66: the pair is returned and not stored.
get_eigensystemNoStore(c, L, num, solverOk, run) ==
    IF NeedsSolve(c, num)
    THEN IF solverOk
         THEN [cache |-> c, raised |-> FALSE, solved |-> TRUE, value |-> Solved(L, num, run)]
         ELSE [cache |-> c, raised |-> TRUE, solved |-> TRUE, value |-> <<>>]
    ELSE [cache |-> c, raised |-> FALSE, solved |-> FALSE, value |-> c[num]]

\* get_eigensystem storing the eigenvectors before the eigenvalues are there.
get_eigensystemPartial(c, L, num, solverOk, run) ==
    IF NeedsSolve(c, num)
    THEN IF solverOk
         THEN Stored(Put(c, num, Solved(L, num, run)), num)
         ELSE [cache |-> Put(c, num, [evecs |-> [lap |-> L, num |-> num, run |-> run],
                                      evals |-> <<>>]),
               raised |-> TRUE, solved |-> TRUE, value |-> <<>>]
    ELSE [cache |-> c, raised |-> FALSE, solved |-> FALSE, value |-> c[num]]

\* Graph.get_eigensystem(num) on cache c and Laplacian L, where the solver
\* returns (solverOk) or raises, and this would be its run-th invocation
\* for num: the cache afterwards, whether the call raised, whether the
\* solver was invoked, and the value returned.
get_eigensystem(c, L, num, solverOk, run) ==
    IF NeedsSolve(c, num)
    THEN IF solverOk
         THEN Stored(Put(c, num, Solved(L, num, run)), num)
         ELSE [cache |-> c, raised |-> TRUE, solved |-> TRUE, value |-> <<>>]
    ELSE [cache |-> c, raised |-> FALSE, solved |-> FALSE, value |-> c[num]]

\* spaces.base.ConvertEigenvectorsToEigenfunctions(eigenvectors)
ConvertEigenvectorsToEigenfunctions(evecs) == [eigenvectors |-> evecs]

InitGraph ==
    /\ phase = "new"
    /\ adjacency = Unset
    /\ laplacian = Unset
    /\ cache = <<>>
    /\ solves = [n \in Nums |-> 0]
    /\ okSolves = [n \in Nums |-> 0]
    /\ sets = 0
    /\ last = NoCall

InitCallers ==
    /\ pc = [t \in 1..NumCallers |-> "idle"]
    /\ arg = [t \in 1..NumCallers |-> 0]
    /\ local = [t \in 1..NumCallers |-> <<>>]
    /\ result = [t \in 1..NumCallers |-> <<>>]

\* No circle operation is pending.
InitCircle == circ = [op |-> "none", num |-> 0, X |-> <<>>, X2 |-> <<>>]

Init == InitGraph /\ InitCallers /\ InitCircle

\* Graph.__init__(adjacency_matrix)
Construct(adj) ==
    /\ phase = "new"
    /\ adjacency' = adj
    /\ cache' = <<>>
    /\ \E c \in {Checks(adj)} :
           IF c # "ok"
           THEN /\ phase' = "failed"
                /\ laplacian' = laplacian
                /\ last' = [NoCall EXCEPT !.op = "__init__", !.raised = TRUE, !.value = c]
           ELSE /\ phase' = "ready"
                /\ laplacian' = set_laplacian(adj)
                /\ last' = [NoCall EXCEPT !.op = "__init__", !.value = c]
    /\ UNCHANGED <<solves, okSolves, sets, callerVars, circ>>

\* How often the solver has raised so far.
Raises == SumTo([n \in Nums |-> solves[n] - okSolves[n]], MaxNum)

\* The public methods that go through get_eigensystem.
GetOps == {"get_eigensystem", "get_eigenvectors", "get_eigenvalues",
           "get_repeated_eigenvalues", "get_eigenfunctions"}

\* What method op makes of the pair v that get_eigensystem returned.
Project(op, v) ==
    CASE op = "get_eigensystem" -> v
      [] op = "get_eigenvectors" -> v.evecs
      [] op = "get_eigenvalues" -> v.evals
      [] op = "get_repeated_eigenvalues" -> v.evals
      [] op = "get_eigenfunctions" -> ConvertEigenvectorsToEigenfunctions(v.evecs)

\* Graph.<op>(num): get_eigensystem(num), then op's projection of its value.
\* The solver may raise, at most MaxRaises times in a behaviour.
Get(op, num) ==
    /\ phase = "ready"
    /\ num <= Order(laplacian)
    /\ \E solverOk \in (IF NeedsSolve(cache, num) /\ Raises < MaxRaises
                        THEN BOOLEAN ELSE {TRUE}) :
       \E r \in {get_eigensystem(cache, laplacian, num, solverOk, solves[num] + 1)} :
             /\ cache' = r.cache
             /\ solves' = [solves EXCEPT ![num] = @ + (IF r.solved THEN 1 ELSE 0)]
             /\ okSolves' = [okSolves EXCEPT
                               ![num] = @ + (IF r.solved /\ ~r.raised THEN 1 ELSE 0)]
             /\ last' = [op |-> op, num |-> num, raised |-> r.raised, solved |-> r.solved,
                         value |-> IF r.raised THEN <<>> ELSE Project(op, r.value)]
    /\ UNCHANGED <<phase, adjacency, laplacian, sets, callerVars, circ>>

Next ==
    \/ phase = "new" /\ \E adj \in Adjacencies : Construct(adj)
    \/ \E op \in GetOps : \E num \in Nums : Get(op, num)

Spec == Init /\ [][Next]_vars

-----------------------------------------------------------------------------
(* Graph with set_laplacian called again after construction.               *)

\* Graph.set_laplacian(adjacency), called on a constructed Graph with the
\* adjacency matrix of another graph on the same nodes.
SetLaplacian(adj) ==
    /\ phase = "ready"
    /\ sets < MaxSetLaplacian
    /\ adj.shape = laplacian.shape
    /\ laplacian' = set_laplacian(adj)
    /\ sets' = sets + 1
    /\ last' = [NoCall EXCEPT !.op = "set_laplacian"]
    /\ UNCHANGED <<phase, adjacency, cache, solves, okSolves, callerVars, circ>>

NextSetLaplacian ==
    \/ Next
    \/ \E adj \in ValidAdjacencies : SetLaplacian(adj)

SpecSetLaplacian == Init /\ [][NextSetLaplacian]_vars

-----------------------------------------------------------------------------
(* Graph shared by callers whose get_eigensystem calls interleave.  The    *)
(* solver always returns here, so that a second run for a num can only     *)
(* come from the interleaving.                                             *)

Callers == 1..NumCallers

InitConc ==
    /\ phase = "ready"
    /\ adjacency \in ValidAdjacencies
    /\ laplacian = set_laplacian(adjacency)
    /\ cache = <<>>
    /\ solves = [n \in Nums |-> 0]
    /\ okSolves = [n \in Nums |-> 0]
    /\ sets = 0
    /\ last = NoCall
    /\ InitCallers
    /\ InitCircle

\* A caller enters get_eigensystem(num).
Call(t, num) ==
    /\ pc[t] = "idle"
    /\ num <= Order(laplacian)
    /\ pc' = [pc EXCEPT ![t] = "check"]
    /\ arg' = [arg EXCEPT ![t] = num]
    /\ UNCHANGED <<graphVars, local, result, circ>>

\* Line 60: if num not in self.cache
Check(t) ==
    /\ pc[t] = "check"
    /\ pc' = [pc EXCEPT ![t] = IF NeedsSolve(cache, arg[t]) THEN "solve" ELSE "return"]
    /\ UNCHANGED <<graphVars, arg, local, result, circ>>

\* Lines 61-64: eigenpairs and set_value, into the locals.
Solve(t) ==
    /\ pc[t] = "solve"
    /\ local' = [local EXCEPT ![t] = Solved(laplacian, arg[t], solves[arg[t]] + 1)]
    /\ solves' = [solves EXCEPT ![arg[t]] = @ + 1]
    /\ okSolves' = [okSolves EXCEPT ![arg[t]] = @ + 1]
    /\ pc' = [pc EXCEPT ![t] = "store"]
    /\ UNCHANGED <<phase, adjacency, laplacian, cache, sets, last, arg, result, circ>>

\* Line 66: self.cache[num] = (evecs, evals[:, None])
Store(t) ==
    /\ pc[t] = "store"
    /\ cache' = Put(cache, arg[t], local[t])
    /\ local' = [local EXCEPT ![t] = <<>>]
    /\ pc' = [pc EXCEPT ![t] = "return"]
    /\ UNCHANGED <<phase, adjacency, laplacian, solves, okSolves, sets, last, arg, result, circ>>

\* Line 68: return self.cache[num]
Return(t) ==
    /\ pc[t] = "return"
    /\ result' = [result EXCEPT ![t] = cache[arg[t]]]
    /\ pc' = [pc EXCEPT ![t] = "idle"]
    /\ UNCHANGED <<graphVars, arg, local, circ>>

NextConc ==
    \/ \E t \in Callers : \E num \in Nums : Call(t, num)
    \/ \E t \in Callers : Check(t)
    \/ \E t \in Callers : Solve(t)
    \/ \E t \in Callers : Store(t)
    \/ \E t \in Callers : Return(t)

SpecConc == InitConc /\ [][NextConc]_vars

-----------------------------------------------------------------------------
(* Properties of Graph.                                                    *)

\* The adjacency array is 2-D, square and symmetric.
Accepted(adj) ==
    /\ Len(adj.shape) = 2
    /\ adj.shape[1] = adj.shape[2]
    /\ \A i \in 1..adj.shape[1] : \A j \in 1..adj.shape[1] : At(adj, i, j) = At(adj, j, i)

Ascending(col, from) ==
    \A i \in from..(Len(col) - 1) : Leq(col[i][1], col[i + 1][1])

\* The entry under num holds an [n, num] eigenvector block of L and a
\* [num, 1] eigenvalue column.
Complete(c, num, L) ==
    /\ num \in DOMAIN c
    /\ c[num].evecs.num = num
    /\ c[num].evecs.lap = L
    /\ Len(c[num].evals) = num
    /\ \A i \in 1..num : Len(c[num].evals[i]) = 1

\* C1: when callers sharing one Graph call get_eigensystem(num)
\* concurrently, the eigendecomposition for each num is executed at most
\* once, in every interleaving of their check, compute and store steps.
C1_AtMostOnceUnderConcurrency == \A n \in Nums : okSolves[n] <= 1

\* C2 as stated: over any sequence of get_* calls the eigensolver is invoked
\* at most once per distinct num.
C2_InvokedAtMostOnce == \A n \in Nums : solves[n] <= 1

\* C2, amended: over any sequence of get_* calls the eigensolver returns at
\* most once per distinct num; num is cached exactly when it has returned
\* for num, and that run was its last invocation for num (no later request
\* invokes it again).  Only a run that raised is followed by another run.
C2_SolvedOncePerNum ==
    \A n \in Nums :
        /\ okSolves[n] <= 1
        /\ (n \in DOMAIN cache) <=> (okSolves[n] = 1)
        /\ n \in DOMAIN cache => cache[n].evecs.run = solves[n]

\* A request answered from the cache after an earlier run raised and a
\* later one returned.
C2_Witness ==
    /\ last.op \in GetOps
    /\ ~last.solved
    /\ ~last.raised
    /\ solves[last.num] = 2
    /\ okSolves[last.num] = 1

\* C3: the cache is a pure memoization store: no step removes an entry or
\* replaces its value, and a get_eigensystem(num) that finds num cached
\* returns the pair that is stored, so every later call returns the pair
\* the first call returned.
C3_CacheOnlyGrows ==
    [][ /\ \A n \in DOMAIN cache : n \in DOMAIN cache' /\ cache'[n] = cache[n]
        /\ (last'.op = "get_eigensystem" /\ ~last'.raised)
              => last'.value = cache'[last'.num]
        /\ (last'.op = "get_eigensystem" /\ last'.num \in DOMAIN cache)
              => (~last'.raised /\ last'.value = cache[last'.num]) ]_vars

\* A get_eigensystem(num) answered from the cache while another num is
\* cached too.
C3_Witness ==
    /\ last.op = "get_eigensystem"
    /\ ~last.solved
    /\ ~last.raised
    /\ last.value = cache[last.num]
    /\ Cardinality(DOMAIN cache) > 1

\* C6: constructing a Graph fails exactly when the adjacency array is not
\* 2-D square or not symmetric, and a failed construction has built no
\* Laplacian and cached nothing.
C6_RejectedBeforeLaplacian ==
    phase # "new" =>
        /\ (phase = "failed") <=> ~Accepted(adjacency)
        /\ phase = "failed" =>
              /\ last.op = "__init__"
              /\ last.raised
              /\ laplacian = Unset
              /\ cache = <<>>
        /\ phase = "ready" => laplacian = set_laplacian(adjacency)

\* A construction rejected for asymmetry.
C6_Witness ==
    /\ phase = "failed"
    /\ Len(adjacency.shape) = 2
    /\ adjacency.shape[1] = adjacency.shape[2]
    /\ last.value = "Adjacency is not symmetric."
    /\ laplacian = Unset

\* C7: a get_* call in which the eigensolver raises changes neither the
\* cache nor the Laplacian, and a get_* call that returns leaves a complete
\* (eigenvectors, eigenvalues) pair stored under its num.
C7_AllOrNothing ==
    [][ /\ (last'.op \in GetOps /\ last'.raised)
              => /\ cache' = cache
                 /\ laplacian' = laplacian
                 /\ phase' = phase
        /\ (last'.op \in GetOps /\ ~last'.raised)
              => /\ Complete(cache', last'.num, laplacian')
                 /\ \A n \in DOMAIN cache' : Complete(cache', n, laplacian') ]_vars

\* A call that raised while an earlier entry was cached.
C7_Witness ==
    /\ last.op \in GetOps
    /\ last.raised
    /\ last.num \notin DOMAIN cache
    /\ cache # <<>>

\* C9 as stated: every cached eigenvalue column is sorted ascending and its
\* entry 0 is machine epsilon, strictly positive.
C9_SortedAndClamped ==
    \A n \in DOMAIN cache :
        /\ cache[n].evals[1] = <<Eps>>
        /\ Less(Num(0), cache[n].evals[1][1])
        /\ Ascending(cache[n].evals, 1)

\* C10: every cache entry is the eigensystem of the Laplacian the Graph
\* currently holds, in every state reachable through construction, the
\* get_* methods and set_laplacian.
C10_CacheMatchesLaplacian ==
    \A n \in DOMAIN cache : cache[n] = Solved(laplacian, n, cache[n].evecs.run)

-----------------------------------------------------------------------------
(* Exact numbers for the circle: (a + b*sqrt2 + c*sqrt3 + e*sqrt6) / d,    *)
(* written [n |-> <<a, b, c, e>>, d |-> d] with d > 0.                     *)

R(a, b, c, e, d) == [n |-> <<a, b, c, e>>, d |-> d]

RInt(k) == R(k, 0, 0, 0, 1)

RNeg(x) == [n |-> [k \in 1..4 |-> -x.n[k]], d |-> x.d]

RAdd(x, y) == [n |-> [k \in 1..4 |-> x.n[k] * y.d + y.n[k] * x.d], d |-> x.d * y.d]

RMul(x, y) ==
    [n |-> << x.n[1] * y.n[1] + 2 * x.n[2] * y.n[2] + 3 * x.n[3] * y.n[3] + 6 * x.n[4] * y.n[4],
              x.n[1] * y.n[2] + x.n[2] * y.n[1] + 3 * x.n[3] * y.n[4] + 3 * x.n[4] * y.n[3],
              x.n[1] * y.n[3] + x.n[3] * y.n[1] + 2 * x.n[2] * y.n[4] + 2 * x.n[4] * y.n[2],
              x.n[1] * y.n[4] + x.n[4] * y.n[1] + x.n[2] * y.n[3] + x.n[3] * y.n[2] >>,
     d |-> x.d * y.d]

REq(x, y) == \A k \in 1..4 : x.n[k] * y.d = y.n[k] * x.d

\* cos(k * pi/12) for k = 0..6.
CosQuadrant ==
    << R(4, 0, 0, 0, 4), R(0, 1, 0, 1, 4), R(0, 0, 2, 0, 4), R(0, 2, 0, 0, 4),
       R(2, 0, 0, 0, 4), R(0, -1, 0, 1, 4), R(0, 0, 0, 0, 4) >>

\* cos of m * pi/12 for m in 0..23.
CosReduced(m) ==
    IF m <= 6 THEN CosQuadrant[m + 1]
    ELSE IF m <= 12 THEN RNeg(CosQuadrant[12 - m + 1])
    ELSE IF m <= 18 THEN RNeg(CosQuadrant[m - 12 + 1])
    ELSE CosQuadrant[24 - m + 1]

\* eagerpy_extras.cos and sin, the angle in units of pi/12.
cos(k) == CosReduced(k % 24)

sin(k) == cos(k - 6)

-----------------------------------------------------------------------------
(* SinCosEigenfunctions and Circle.                                        *)

\* SinCosEigenfunctions.__init__ without its second assertion.
SinCosInitNoPositiveCheck(num) ==
    IF num % 2 # 1
    THEN [raised |-> TRUE, num_eigenfunctions |-> 0, num_levels |-> 0]
    ELSE [raised |-> FALSE, num_eigenfunctions |-> num, num_levels |-> (num \div 2) + 1]

\* SinCosEigenfunctions.__init__(num_eigenfunctions): the object, or raised.
SinCosInit(num) ==
    IF num % 2 # 1
    THEN [raised |-> TRUE, num_eigenfunctions |-> 0, num_levels |-> 0]
    ELSE IF ~(num >= 1)
         THEN [raised |-> TRUE, num_eigenfunctions |-> 0, num_levels |-> 0]
         ELSE [raised |-> FALSE, num_eigenfunctions |-> num, num_levels |-> (num \div 2) + 1]

\* SinCosEigenfunctions.num_eigenfunctions_per_level, for num_levels levels.
num_eigenfunctions_per_level(levels) ==
    [l \in 1..levels |-> IF l - 1 = 0 THEN 1 ELSE 2]

\* const = 2.0 ** 0.5
Const == R(0, 1, 0, 0, 1)

RECURSIVE EvaluateLevels(_, _, _)
\* The values __call__ appends for the levels level..levels-1 at angle theta.
EvaluateLevels(theta, level, levels) ==
    IF level >= levels THEN <<>>
    ELSE (IF level = 0
          THEN <<RInt(1)>>
          ELSE <<RMul(Const, cos(level * theta)), RMul(Const, sin(level * theta))>>)
         \o EvaluateLevels(theta, level + 1, levels)

\* SinCosEigenfunctions.__call__(X) with num_levels levels: [N, M].
evaluate(levels, X) == [i \in 1..Len(X) |-> EvaluateLevels(X[i][1], 0, levels)]

\* _addition_theorem without the factor num_eigenfunctions_per_level.
addition_theoremNoMultiplicity(levels, X, X2) ==
    [i \in 1..Len(X) |-> [j \in 1..Len(X2) |-> [l \in 1..levels |->
        cos((l - 1) * (X[i][1] - X2[j][1]))]]]

\* SinCosEigenfunctions._addition_theorem(X, X2) with num_levels levels: [N, N2, L].
addition_theorem(levels, X, X2) ==
    [i \in 1..Len(X) |-> [j \in 1..Len(X2) |-> [l \in 1..levels |->
        RMul(RInt(num_eigenfunctions_per_level(levels)[l]),
             cos((l - 1) * (X[i][1] - X2[j][1])))]]]

RECURSIVE chain(_, _)
\* utils.chain(elements, repetitions): each element repeated.
chain(elements, repetitions) ==
    IF elements = <<>> THEN <<>>
    ELSE Repeat(Head(elements), Head(repetitions)) \o chain(Tail(elements), Tail(repetitions))

eigenvalues_per_levelLinear(levels) == [l \in 1..levels |-> l - 1]

\* np.arange(num_levels) ** 2.0
eigenvalues_per_level(levels) == [l \in 1..levels |-> (l - 1) * (l - 1)]

\* Circle.get_eigenvalues on the object SinCosEigenfunctions(num): [num, 1].
EigenvaluesOf(ef) ==
    Column(chain(eigenvalues_per_level(ef.num_levels),
                 num_eigenfunctions_per_level(ef.num_levels)))

CircleNums == (-MaxCircleNum)..MaxCircleNum

\* Angles in units of pi/12: multiples of 75 degrees.
Angles == { 5 * k : k \in 0..MaxAngle }

\* The [N, 1] arrays of angles with 1 <= N <= MaxPoints.
Points == UNION { [1..n -> { <<a>> : a \in Angles }] : n \in 1..MaxPoints }

\* The arguments of one circle operation, drawn before it runs.
InitCircleInputs ==
    /\ InitGraph
    /\ InitCallers
    /\ circ \in [op : {"none"}, num : CircleNums, X : Points, X2 : Points]

\* SinCosEigenfunctions(num)
NewSinCos ==
    /\ circ.op = "none"
    /\ \E ef \in {SinCosInit(circ.num)} :
          circ' = [op |-> "SinCosEigenfunctions", num |-> circ.num, raised |-> ef.raised,
                   value |-> ef]
    /\ UNCHANGED <<graphVars, callerVars>>

\* Circle.get_eigenfunctions(num)
CircleGetEigenfunctions ==
    /\ circ.op = "none"
    /\ \E ef \in {SinCosInit(circ.num)} :
          circ' = [op |-> "get_eigenfunctions", num |-> circ.num, raised |-> ef.raised,
                   value |-> ef]
    /\ UNCHANGED <<graphVars, callerVars>>

\* Circle.get_eigenvalues(num)
CircleGetEigenvalues ==
    /\ circ.op = "none"
    /\ \E ef \in {SinCosInit(circ.num)} :
          circ' = [op |-> "get_eigenvalues", num |-> circ.num, raised |-> ef.raised,
                   value |-> IF ef.raised THEN <<>> ELSE EigenvaluesOf(ef)]
    /\ UNCHANGED <<graphVars, callerVars>>

\* SinCosEigenfunctions(num)(X), on an object that was constructed.
Evaluate ==
    /\ circ.op = "none"
    /\ \E ef \in {SinCosInit(circ.num)} :
          /\ ~ef.raised
          /\ circ' = [op |-> "evaluate", num |-> circ.num, raised |-> FALSE, X |-> circ.X,
                      value |-> evaluate(ef.num_levels, circ.X)]
    /\ UNCHANGED <<graphVars, callerVars>>

\* SinCosEigenfunctions(num)._addition_theorem(X, X2), on an object that was constructed.
AdditionTheorem ==
    /\ circ.op = "none"
    /\ \E ef \in {SinCosInit(circ.num)} :
          /\ ~ef.raised
          /\ circ' = [op |-> "addition_theorem", num |-> circ.num, raised |-> FALSE,
                      X |-> circ.X, X2 |-> circ.X2,
                      value |-> addition_theorem(ef.num_levels, circ.X, circ.X2)]
    /\ UNCHANGED <<graphVars, callerVars>>

NextCircle ==
    \/ NewSinCos
    \/ CircleGetEigenfunctions
    \/ CircleGetEigenvalues
    \/ Evaluate
    \/ AdditionTheorem

SpecCircle == InitCircleInputs /\ [][NextCircle]_vars

-----------------------------------------------------------------------------
(* Properties of the circle.                                               *)

\* The level of basis function i (counted from 0): column 0 is level 0,
\* columns 2l-1 and 2l are level l.
LevelOf(i) == IF i = 0 THEN 0 ELSE (i + 1) \div 2

\* Basis function i (counted from 0) at angle theta: 1, sqrt2 cos(l theta)
\* in column 2l-1, sqrt2 sin(l theta) in column 2l.
BasisFunction(i, theta) ==
    IF i = 0 THEN RInt(1)
    ELSE IF i % 2 = 1 THEN RMul(Const, cos(LevelOf(i) * theta))
    ELSE RMul(Const, sin(LevelOf(i) * theta))

RECURSIVE SumOver(_, _, _, _)
\* The sum of E1[m] * E2[m] over the columns m (counted from 1) in lo..hi.
SumOver(E1, E2, lo, hi) ==
    IF lo > hi THEN RInt(0)
    ELSE RAdd(RMul(E1[lo], E2[lo]), SumOver(E1, E2, lo + 1, hi))

\* The sum over the basis functions of level l (counted from 0) of the
\* products of rows E1 and E2 of evaluate.
BruteForce(E1, E2, l) ==
    IF l = 0 THEN SumOver(E1, E2, 1, 1) ELSE SumOver(E1, E2, 2 * l, 2 * l + 1)

\* C4: for every odd num >= 1 and all point sets X, X2 the addition theorem
\* at [i, j, l] equals the sum over the basis functions m of level l of
\* evaluate(X)[i, m] * evaluate(X2)[j, m], and its shape is [N, N2, L].
C4_AdditionTheoremIsBruteForce ==
    circ.op = "addition_theorem" =>
        /\ Len(circ.value) = Len(circ.X)
        /\ \A i \in 1..Len(circ.X) :
              /\ Len(circ.value[i]) = Len(circ.X2)
              /\ \A j \in 1..Len(circ.X2) :
                    /\ Len(circ.value[i][j]) = (circ.num + 1) \div 2
                    /\ \A l \in 0..((circ.num - 1) \div 2) :
                          REq(circ.value[i][j][l + 1],
                              BruteForce(evaluate((circ.num + 1) \div 2, circ.X)[i],
                                         evaluate((circ.num + 1) \div 2, circ.X2)[j], l))

\* The addition theorem on two points each, three levels, at angles that differ.
C4_Witness ==
    /\ circ.op = "addition_theorem"
    /\ circ.num = 5
    /\ Len(circ.X) = 2
    /\ Len(circ.X2) = 2
    /\ circ.X[1] # circ.X2[2]
    /\ ~REq(circ.value[1][2][3], RInt(2))

\* C5: for every odd num >= 1 Circle.get_eigenvalues(num) is a [num, 1]
\* column whose entry i is the square of the level of basis function i,
\* in the order in which evaluate emits the basis functions.
C5_EigenvalueOfLevel ==
    (circ.op = "get_eigenvalues" /\ ~circ.raised) =>
        /\ Len(circ.value) = circ.num
        /\ \A i \in 0..(circ.num - 1) :
              /\ circ.value[i + 1] = <<LevelOf(i) * LevelOf(i)>>
              /\ \A theta \in Angles :
                    /\ Len(evaluate((circ.num + 1) \div 2, << <<theta>> >>)[1]) = circ.num
                    /\ REq(evaluate((circ.num + 1) \div 2, << <<theta>> >>)[1][i + 1],
                           BasisFunction(i, theta))

\* The eigenvalues of five basis functions: 0, 1, 1, 4, 4.
C5_Witness ==
    /\ circ.op = "get_eigenvalues"
    /\ ~circ.raised
    /\ circ.num = 5
    /\ circ.value = << <<0>>, <<1>>, <<1>>, <<4>>, <<4>> >>

\* C8: SinCosEigenfunctions(num), Circle.get_eigenfunctions(num) and
\* Circle.get_eigenvalues(num) fail exactly when num is even or num < 1,
\* and an object that is constructed has (num + 1) / 2 levels.
C8_OddPositiveOnly ==
    circ.op \in {"SinCosEigenfunctions", "get_eigenfunctions", "get_eigenvalues"} =>
        /\ circ.raised <=> ((\E k \in CircleNums : circ.num = 2 * k) \/ circ.num < 1)
        /\ (~circ.raised /\ circ.op # "get_eigenvalues") =>
              /\ circ.value.num_eigenfunctions = circ.num
              /\ 2 * circ.value.num_levels = circ.num + 1
        /\ (~circ.raised /\ circ.op = "get_eigenvalues") =>
              2 * Len(circ.value) = 2 * circ.num

\* A negative odd num is rejected by get_eigenvalues.
C8_Witness ==
    /\ circ.op = "get_eigenvalues"
    /\ circ.raised
    /\ circ.num < 0
    /\ circ.num % 2 = 1

====
